---- MODULE Spec2Model ----
(***************************************************************************)
(* A model of scripts/generate_pptx.py: the screenshot lookup              *)
(* (find_screenshot), the aspect-ratio fit (add_screenshot), the slide     *)
(* builders and generate_presentation.                                     *)
(*                                                                         *)
(* Strings are sequences of one-character strings, so that globbing,       *)
(* formatting and sorting are computed character by character.  A          *)
(* directory is its listing and the entries of it that are symbolic links  *)
(* to a missing target: glob lists them, exists() is False for them.       *)
(* Lengths are exact rationals in hundredths of an inch: the code         *)
(* computes them in binary floating point, whose rounding is not modelled. *)
(***************************************************************************)
EXTENDS Integers, Sequences, FiniteSets, TLC

VARIABLES
    fs,                  \* the screenshots directory: [exists, entries, links]
    COLORS,              \* the module-level COLORS: the key of the PALETTES entry it refers to
    prevCOLORS,          \* COLORS as the latest call of generate_presentation found it
    pc,                  \* position inside generate_presentation
    call,                \* arguments of the running call
    prs,                 \* the Presentation being built: a sequence of slides
    screenshots_found,   \* generate_presentation's local list
    screenshots_missing, \* generate_presentation's local list
    output,              \* the deck saved at output_path by this call (<<>>: none)
    saves,               \* number of prs.save calls of this call
    stdout,              \* lines printed by this call
    ret                  \* latest direct call of a helper: [fn, args, result]

vars == <<fs, COLORS, prevCOLORS, pc, call, prs, screenshots_found,
          screenshots_missing, output, saves, stdout, ret>>

----------------------------------------------------------------------------
(* Characters and strings                                                  *)

\* Code-point order of the characters that occur in file names.
CharOrder ==
    <<"-", ".", "/",
      "0", "1", "2", "3", "4", "5", "6", "7", "8", "9",
      "A", "B", "C", "D", "E", "F", "G", "H", "I", "J", "K", "L", "M",
      "N", "O", "P", "Q", "R", "S", "T", "U", "V", "W", "X", "Y", "Z",
      "_",
      "a", "b", "c", "d", "e", "f", "g", "h", "i", "j", "k", "l", "m",
      "n", "o", "p", "q", "r", "s", "t", "u", "v", "w", "x", "y", "z">>

OrdTable ==
    [c \in {CharOrder[i] : i \in 1..Len(CharOrder)} |->
        CHOOSE i \in 1..Len(CharOrder) : CharOrder[i] = c]

Ord(c) == OrdTable[c]

Min2(a, b) == IF a <= b THEN a ELSE b

\* str.__lt__: lexicographic by code point, a proper prefix first.
StrLess(a, b) ==
    \E k \in 1..(Min2(Len(a), Len(b)) + 1) :
        /\ \A i \in 1..(k - 1) : a[i] = b[i]
        /\ \/ k > Len(a) /\ k <= Len(b)
           \/ k <= Len(a) /\ k <= Len(b) /\ Ord(a[k]) < Ord(b[k])

\* sorted(matches)[-1]: the largest name.
SortedLast(names) == CHOOSE m \in names : \A o \in names : o = m \/ StrLess(o, m)

\* sorted(matches)[0] over paths of one directory: the smallest name.
SortedFirst(names) == CHOOSE m \in names : \A o \in names : o = m \/ StrLess(m, o)

EndsWith(s, suffix) ==
    /\ Len(suffix) <= Len(s)
    /\ SubSeq(s, Len(s) - Len(suffix) + 1, Len(s)) = suffix

Contains(s, part) ==
    \E i \in 1..(Len(s) - Len(part) + 1) : SubSeq(s, i, i + Len(part) - 1) = part

DigitChar(d) == <<"0", "1", "2", "3", "4", "5", "6", "7", "8", "9">>[d + 1]

\* f"{n}" of a non-negative int.
RECURSIVE Str(_)
Str(n) == IF n < 10 THEN <<DigitChar(n)>> ELSE Str(n \div 10) \o <<DigitChar(n % 10)>>

\* f"{n:02d}" of a non-negative int.
Pad2(n) == IF n < 10 THEN <<"0">> \o Str(n) ELSE Str(n)

Upper(c) ==
    CASE c = "p" -> "P" [] c = "n" -> "N" [] c = "g" -> "G" [] c = "j" -> "J"
      [] c = "e" -> "E" [] OTHER -> c

\* ext.upper()
UpperStr(s) == [i \in 1..Len(s) |-> Upper(s[i])]

----------------------------------------------------------------------------
(* Paths and the screenshots directory                                     *)

None == [parent |-> <<>>, name |-> <<>>]

\* screenshots_dir arguments: None, the empty string, and the one directory path
\* of the model.
PyNone == <<"None">>
EmptyStr == <<>>
ShotsDir == <<"s", "h", "o", "t", "s">>

\* `not screenshots_dir`
Falsy(s) == s = PyNone \/ s = EmptyStr

\* screenshots_path / name, and str() of it (kept as its two parts).
PathOf(dir, name) == [parent |-> dir, name |-> name]

\* Path(p).exists(): follows symbolic links, so it is False for an entry that
\* is a link to a missing target.
Exists(fsys, p) ==
    p.parent = ShotsDir /\ fsys.exists /\ p.name \in fsys.entries \ fsys.links

\* fnmatch of `name` against "*<mid>*<ext>" (case-sensitive).
GlobMatch(name, mid, ext) ==
    /\ EndsWith(name, ext)
    /\ Contains(SubSeq(name, 1, Len(name) - Len(ext)), mid)

\* screenshots_path.glob(f"*{mid}*{ext}"): the names of the directory listing
\* that match, broken links included (glob does not stat what it lists).
Glob(fsys, mid, ext) == {n \in fsys.entries : GlobMatch(n, mid, ext)}

png == <<".", "p", "n", "g">>
jpg == <<".", "j", "p", "g">>
jpeg == <<".", "j", "p", "e", "g">>

GlobExts == <<png, jpg, jpeg>>
ExactExts == <<png, jpg, jpeg, UpperStr(png), UpperStr(jpg), UpperStr(jpeg)>>

slide_ == <<"s", "l", "i", "d", "e", "_">>
Slide_ == <<"S", "l", "i", "d", "e", "_">>

\* The round in which a loop first finds what it looks for: the index of the
\* first TRUE of a sequence of Booleans (0: none).
FirstIndex(hits) ==
    IF \E i \in 1..Len(hits) : hits[i]
    THEN CHOOSE i \in 1..Len(hits) : hits[i] /\ \A j \in 1..(i - 1) : ~hits[j]
    ELSE 0

\* The second pattern of line 95 left out.
PatternsPaddedOnly(slide_num) == <<Pad2(slide_num), Pad2(slide_num)>>

\* The patterns written without the number: "**" twice.
PatternsUnnumbered(slide_num) == <<<<>>, <<>>>>

\* patterns = [f"*{slide_num:02d}*", f"*{slide_num}*"]
Patterns(slide_num) == <<Pad2(slide_num), Str(slide_num)>>

\* The loops of lines 98-99 nested the other way round: extensions outside.
PatternStepsExtFirst(slide_num) ==
    [k \in 1..(2 * Len(GlobExts)) |->
        [mid |-> Patterns(slide_num)[((k - 1) % 2) + 1],
         ext |-> GlobExts[((k - 1) \div 2) + 1]]]

\* The (pattern, ext) pairs in loop order.
PatternSteps(slide_num) ==
    [k \in 1..(2 * Len(GlobExts)) |->
        [mid |-> Patterns(slide_num)[((k - 1) \div Len(GlobExts)) + 1],
         ext |-> GlobExts[((k - 1) % Len(GlobExts)) + 1]]]

\* matches = glob(pattern + ext) + glob(pattern + ext.upper())
Matches(fsys, step) ==
    Glob(fsys, step.mid, step.ext) \cup Glob(fsys, step.mid, UpperStr(step.ext))

PossibleNames(slide_name, slide_num) ==
    <<slide_name>> \o
    (IF slide_num # 0
     THEN <<slide_ \o Pad2(slide_num), Slide_ \o Pad2(slide_num),
            Pad2(slide_num), Str(slide_num)>>
     ELSE <<>>)

\* The (name, ext) candidates in loop order.
ExactCandidates(slide_name, slide_num) ==
    LET names == PossibleNames(slide_name, slide_num)
        ne == Len(ExactExts)
    IN [k \in 1..(Len(names) * ne) |->
           names[((k - 1) \div ne) + 1] \o ExactExts[((k - 1) % ne) + 1]]

ExactStage(fsys, screenshots_dir, slide_name, slide_num) ==
    LET cands == ExactCandidates(slide_name, slide_num)
        k == FirstIndex([i \in 1..Len(cands) |->
                            Exists(fsys, PathOf(screenshots_dir, cands[i]))])
    IN IF k = 0 THEN None ELSE PathOf(screenshots_dir, cands[k])

PatternStage(fsys, screenshots_dir, slide_name, slide_num) ==
    LET steps == PatternSteps(slide_num)
        k == IF slide_num # 0
             THEN FirstIndex([i \in 1..Len(steps) |-> Matches(fsys, steps[i]) # {}])
             ELSE 0
    IN IF k = 0
       THEN ExactStage(fsys, screenshots_dir, slide_name, slide_num)
       ELSE PathOf(screenshots_dir, SortedFirst(Matches(fsys, steps[k])))

\* find_screenshot; slide_num 0 stands for the falsy None and 0.
find_screenshot(fsys, screenshots_dir, slide_name, slide_num) ==
    IF Falsy(screenshots_dir) THEN None
    ELSE IF ~fsys.exists THEN None
    ELSE PatternStage(fsys, screenshots_dir, slide_name, slide_num)

----------------------------------------------------------------------------
(* Exact rationals: lengths in hundredths of an inch                       *)

Q(n, d) == [n |-> n, d |-> d]
QInt(i) == Q(i, 1)
QAdd(a, b) == Q(a.n * b.d + b.n * a.d, a.d * b.d)
QSub(a, b) == Q(a.n * b.d - b.n * a.d, a.d * b.d)
QMul(a, b) == Q(a.n * b.n, a.d * b.d)
QDiv(a, b) == Q(a.n * b.d, a.d * b.n)
QEq(a, b) == a.n * b.d = b.n * a.d
QLe(a, b) == a.n * b.d <= b.n * a.d
QLt(a, b) == a.n * b.d < b.n * a.d

----------------------------------------------------------------------------
(* Slides and shapes                                                       *)

\* A shape: its kind, the role it plays on the slide, its rectangle (the four
\* arguments given to Inches: integers, and for a picture rationals) and, for a
\* picture, the file it shows, for a placeholder, the file name its label asks
\* for.  Of the shapes the builders draw at fixed places, only those a helper
\* adds and the ocean rectangle are kept.
Shape(type, role, x, y, w, h, file) ==
    [type |-> type, role |-> role, left |-> x, top |-> y, width |-> w, height |-> h,
     file |-> file]

NoFile == <<>>

Rect(type, role, x, y, w, h) == Shape(type, role, x, y, w, h, NoFile)

\* A textbox whose paragraph text is kept: "" until p.text is assigned.
TextBox(role, x, y, w, h, text) ==
    [type |-> "textbox", role |-> role, left |-> x, top |-> y, width |-> w,
     height |-> h, file |-> NoFile, text |-> text]

\* prs.slides.add_slide(prs.slide_layouts[6]): a blank slide; `notes` lists every
\* assignment to notes_text_frame.text, in order.
NewSlide(kind) == [kind |-> kind, shapes |-> <<>>, notes |-> <<>>]

AddShapes(slide, shapes) == [slide EXCEPT !.shapes = @ \o shapes]

\* Image.open(path).size of a file that is no image raises: pixel size 0 x 0
\* stands for such a file.
Unreadable == [w |-> 0, h |-> 0]

\* The fit of lines 132-146: [left, width, height] of the picture.
FitWide(img, max_width, max_height) ==
    \* "Height is the constraint"
    LET aspect_ratio == Q(img.w, img.h)
        height == QInt(max_height)
        width == QMul(height, aspect_ratio)
    IN [width |-> width, height |-> height]

\* Line 143 multiplying by the aspect ratio instead of dividing.
FitTallMultiplied(img, max_width, max_height) ==
    LET aspect_ratio == Q(img.w, img.h)
        width == QInt(max_width)
        height == QMul(width, aspect_ratio)
    IN [width |-> width, height |-> height]

FitTall(img, max_width, max_height) ==
    \* "Width is the constraint"
    LET aspect_ratio == Q(img.w, img.h)
        width == QInt(max_width)
        height == QDiv(width, aspect_ratio)
    IN [width |-> width, height |-> height]

\* The comparison of line 136 turned around.
FitComparisonTurned(img, max_width, max_height) ==
    LET aspect_ratio == Q(img.w, img.h)
    IN IF QLt(Q(max_width, max_height), aspect_ratio)
       THEN FitWide(img, max_width, max_height)
       ELSE FitTall(img, max_width, max_height)

Fit(img, max_width, max_height) ==
    LET aspect_ratio == Q(img.w, img.h)
    IN IF QLt(aspect_ratio, Q(max_width, max_height))
       THEN FitWide(img, max_width, max_height)
       ELSE FitTall(img, max_width, max_height)

\* add_screenshot without its `return True`: the picture is added and the
\* result is falsy.
add_screenshot_no_return(slide, fsys, screenshot_path, img, x, y, max_width, max_height) ==
    IF screenshot_path # None /\ Exists(fsys, screenshot_path)
    THEN IF img = Unreadable
         THEN [ok |-> FALSE, raised |-> TRUE, slide |-> slide]
         ELSE LET fit == Fit(img, max_width, max_height)
                  x_centered ==
                      QAdd(QInt(x), QDiv(QSub(QInt(max_width), fit.width), QInt(2)))
              IN [ok |-> FALSE, raised |-> FALSE,
                  slide |-> AddShapes(slide,
                      <<Shape("picture", "screenshot", x_centered, QInt(y),
                              fit.width, fit.height, screenshot_path.name)>>)]
    ELSE [ok |-> FALSE, raised |-> FALSE, slide |-> slide]

\* add_screenshot: [ok, raised, slide].  `img` is what Image.open reads from the
\* file at screenshot_path.
add_screenshot(slide, fsys, screenshot_path, img, x, y, max_width, max_height) ==
    IF screenshot_path # None /\ Exists(fsys, screenshot_path)
    THEN IF img = Unreadable
         THEN [ok |-> FALSE, raised |-> TRUE, slide |-> slide]
         ELSE LET fit == Fit(img, max_width, max_height)
                  x_centered ==
                      QAdd(QInt(x), QDiv(QSub(QInt(max_width), fit.width), QInt(2)))
              IN [ok |-> TRUE, raised |-> FALSE,
                  slide |-> AddShapes(slide,
                      <<Shape("picture", "screenshot", x_centered, QInt(y),
                              fit.width, fit.height, screenshot_path.name)>>)]
    ELSE [ok |-> FALSE, raised |-> FALSE, slide |-> slide]

\* add_screenshot_placeholder with its default rectangle; `label_file` is the
\* file name the label shows in parentheses.
add_screenshot_placeholder(slide, label_file) ==
    AddShapes(slide,
        <<Shape("rounded_rectangle", "placeholder", 75, 230, 1150, 420, label_file)>>)

add_context_label(slide) ==
    AddShapes(slide, <<Rect("textbox", "context_label", 75, 60, 300, 40)>>)

add_action_title(slide) ==
    AddShapes(slide, <<Rect("textbox", "action_title", 75, 100, 1180, 120)>>)

\* add_card: the card, its title box and its content box.
add_card(slide, role, x, y, width, height) ==
    AddShapes(slide,
        <<Rect("rounded_rectangle", role, x, y, width, height),
          Rect("textbox", "card_title", x + 20, y + 20, width - 40, 50),
          Rect("textbox", "card_content", x + 20, y + 70, width - 40, height - 80)>>)

add_speaker_notes(slide, text) == [slide EXCEPT !.notes = Append(@, text)]

----------------------------------------------------------------------------
(* The configuration                                                       *)

\* A config list is a sequence of entries; an entry is "ok" (the shape the loop
\* unpacks) or "bad" (any other shape: unpacking or indexing it raises).
FirstBad(list) ==
    IF \E i \in 1..Len(list) : list[i] = "bad"
    THEN CHOOSE i \in 1..Len(list) :
             list[i] = "bad" /\ \A j \in 1..(i - 1) : list[j] # "bad"
    ELSE 0

\* Number of entries a `for ... in list` loop handles before it ends or raises.
Handled(list) == IF FirstBad(list) = 0 THEN Len(list) ELSE FirstBad(list) - 1

ThreeOk == <<"ok", "ok", "ok">>

\* config.get(key, default) of every list the builders loop over: the defaults
\* all have three entries.
DefaultConfig ==
    [pillars |-> ThreeOk, requirements |-> ThreeOk, below_items |-> ThreeOk,
     stats |-> ThreeOk, metrics |-> ThreeOk, roadmap_items |-> ThreeOk,
     gaps |-> ThreeOk]

\* below_items without the [:3] slice.
TakeAll(list) == list

\* below_items[:3]
Take3(list) == SubSeq(list, 1, Min2(3, Len(list)))

\* The `+=` of a loop placed after the loop: the coordinate stays where it
\* started while the loop runs.
AdvancedAfterLoop(start, step, rounds) == start

RECURSIVE Advanced(_, _, _)
\* A loop's running coordinate (pillar_x, req_y, item_y, card_x, y) after
\* `rounds` executions of its `+= step`.
Advanced(start, step, rounds) ==
    IF rounds = 0 THEN start ELSE Advanced(start, step, rounds - 1) + step

RECURSIVE Concat(_)
Concat(seqs) == IF seqs = <<>> THEN <<>> ELSE Head(seqs) \o Concat(Tail(seqs))

\* The shapes a loop adds: those of its rounds, in order.
RowShapes(rounds) == Concat(rounds)

\* What add_card adds, as shapes.
CardShapes(role, x, y, width, height) ==
    add_card(NewSlide("scratch"), role, x, y, width, height).shapes

----------------------------------------------------------------------------
(* Slide builders: each returns [slide, raised]                            *)

Built(slide) == [slide |-> slide, raised |-> FALSE]
Raised(slide) == [slide |-> slide, raised |-> TRUE]

slide_1_title(config) ==
    LET s0 == NewSlide("title")
        Pillar(i) == CardShapes("pillar", Advanced(75, 390, i), 450, 360, 180)
        s1 == AddShapes(s0, RowShapes([k \in 1..Handled(config.pillars) |-> Pillar(k - 1)]))
    IN IF FirstBad(config.pillars) # 0 THEN Raised(s1)
       ELSE Built(add_speaker_notes(s1, "TIMING: 30 seconds / SAY: Lead with your value prop"))

slide_2_problem_iceberg(config) ==
    LET s0 == add_action_title(add_context_label(NewSlide("problem")))
        Req(i) == <<Rect("textbox", "requirement", 75, Advanced(260, 80, i), 500, 60)>>
        s1 == AddShapes(s0, RowShapes([k \in 1..Handled(config.requirements) |-> Req(k - 1)]))
        s2 == AddShapes(s1, <<Rect("rounded_rectangle", "ocean", 630, 420, 570, 260)>>)
        items == Take3(config.below_items)
        \* the item's textbox is added before item['title'] is read: an item is
        \* modelled by its title, and "bad" has none
        Item(i) == <<TextBox("below_item", 630 + 30, Advanced(470, 60, i), 570 - 60, 55,
                             IF items[i + 1] = "bad" THEN "" ELSE items[i + 1])>>
        drawn == IF FirstBad(items) = 0 THEN Len(items) ELSE FirstBad(items)
        s3 == AddShapes(s2, RowShapes([k \in 1..drawn |-> Item(k - 1)]))
    IN IF FirstBad(config.requirements) # 0 THEN Raised(s1)
       ELSE IF FirstBad(items) # 0 THEN Raised(s3)
       ELSE Built(add_speaker_notes(s3, "TIMING: 45 seconds / SAY: The visible cost is just the tip of the iceberg."))

slide_3_scale(config) ==
    LET s0 == add_action_title(add_context_label(NewSlide("scale")))
        card_x(i) == Advanced(75, 370 + 30, i)
        Stat(i) == <<Rect("rounded_rectangle", "stat", card_x(i), 280, 370, 220),
                     Rect("textbox", "stat_value", card_x(i), 280 + 40, 370, 100),
                     Rect("textbox", "stat_label", card_x(i), 280 + 150, 370, 50)>>
        s1 == AddShapes(s0, RowShapes([k \in 1..Handled(config.stats) |-> Stat(k - 1)]))
    IN IF FirstBad(config.stats) # 0 THEN Raised(s1)
       ELSE Built(add_speaker_notes(s1, "TIMING: 30 seconds / SAY: Emphasize the magnitude"))

\* SCREENSHOT_SLIDES
SCREENSHOT_SLIDES ==
    [n \in 4..8 |->
        CASE n = 4 -> slide_ \o <<"0", "4", "_", "a", "r", "c", "h", "i", "t", "e", "c", "t", "u", "r", "e">>
          [] n = 5 -> slide_ \o <<"0", "5", "_", "d", "e", "m", "o">>
          [] n = 6 -> slide_ \o <<"0", "6", "_", "d", "e", "m", "o", "_", "e", "d", "g", "e">>
          [] n = 7 -> slide_ \o <<"0", "7", "_", "p", "r", "o", "o", "f">>
          [] n = 8 -> slide_ \o <<"0", "8", "_", "a", "u", "d", "i", "t">>]

\* The pixel size Image.open reads from each file of the model's directories.
ImageOf(name) ==
    CASE name = <<"4">> \o png -> [w |-> 16, h |-> 9]
      [] name = <<"0", "4">> \o jpg -> [w |-> 4, h |-> 3]
      [] name = <<"1", "4">> \o png -> [w |-> 1, h |-> 2]
      [] name = <<"5">> \o png -> [w |-> 16, h |-> 9]
      [] name = <<"6">> \o png -> [w |-> 2, h |-> 1]
      [] name = SCREENSHOT_SLIDES[7] \o jpeg -> [w |-> 4, h |-> 1]
      [] name = <<"8">> \o png -> [w |-> 1, h |-> 1]
      [] name = <<"0", "8">> \o UpperStr(jpg) -> Unreadable
      [] OTHER -> [w |-> 3, h |-> 1]

\* Lines 525-527 and their copies in slides 5, 6 and 8: the screenshot or the
\* placeholder whose label names f"{slide_num}.png".
screenshot_or_placeholder(slide, fsys, screenshots_dir, slide_num) ==
    LET screenshot ==
            find_screenshot(fsys, screenshots_dir, SCREENSHOT_SLIDES[slide_num], slide_num)
        shot == add_screenshot(slide, fsys, screenshot, ImageOf(screenshot.name),
                               75, 230, 1150, 420)
    IN IF shot.raised THEN Raised(shot.slide)
       ELSE IF ~shot.ok
       THEN Built(add_screenshot_placeholder(shot.slide, Str(slide_num) \o png))
       ELSE Built(shot.slide)

screenshot_slide(kind, slide_num, notes, fsys, screenshots_dir) ==
    LET s0 == add_action_title(add_context_label(NewSlide(kind)))
        body == screenshot_or_placeholder(s0, fsys, screenshots_dir, slide_num)
    IN IF body.raised THEN body ELSE Built(add_speaker_notes(body.slide, notes))

slide_4_architecture(config, fsys, screenshots_dir) ==
    screenshot_slide("architecture", 4, "TIMING: 45 seconds / SAY: Walk through the architecture",
                     fsys, screenshots_dir)

slide_5_demo_good(config, fsys, screenshots_dir) ==
    screenshot_slide("demo_good", 5, "TIMING: 60 seconds / SAY: Watch what happens when...",
                     fsys, screenshots_dir)

slide_6_demo_edge(config, fsys, screenshots_dir) ==
    screenshot_slide("demo_edge", 6, "TIMING: 60 seconds / SAY: This is the key differentiator",
                     fsys, screenshots_dir)

\* The metric cards of slide 7 (lines 576-591).
metric_cards(slide, config) ==
    LET Metric(i) ==
            CardShapes("metric", Advanced(75, 390, i), 280, 360, 200)
            \o <<Rect("textbox", "metric_value", Advanced(75, 390, i) + 20, 340, 320, 80)>>
        s1 == AddShapes(slide, RowShapes([k \in 1..Handled(config.metrics) |-> Metric(k - 1)]))
    IN IF FirstBad(config.metrics) # 0 THEN Raised(s1) ELSE Built(s1)

slide_7_notes == "TIMING: 30 seconds / SAY: Back up your claims with numbers"

\* slide_7_proof with add_speaker_notes inside the `if not add_screenshot`
\* block.
slide_7_proof_notes_indented(config, fsys, screenshots_dir) ==
    LET s0 == add_action_title(add_context_label(NewSlide("proof")))
        screenshot == find_screenshot(fsys, screenshots_dir, SCREENSHOT_SLIDES[7], 7)
        shot == add_screenshot(s0, fsys, screenshot, ImageOf(screenshot.name),
                               75, 230, 1150, 350)
        cards == metric_cards(shot.slide, config)
    IN IF shot.raised THEN Raised(shot.slide)
       ELSE IF shot.ok THEN Built(shot.slide)
       ELSE IF cards.raised THEN cards
       ELSE Built(add_speaker_notes(cards.slide, slide_7_notes))

slide_7_proof(config, fsys, screenshots_dir) ==
    LET s0 == add_action_title(add_context_label(NewSlide("proof")))
        screenshot == find_screenshot(fsys, screenshots_dir, SCREENSHOT_SLIDES[7], 7)
        shot == add_screenshot(s0, fsys, screenshot, ImageOf(screenshot.name),
                               75, 230, 1150, 350)
        body == IF shot.raised THEN Raised(shot.slide)
                ELSE IF ~shot.ok THEN metric_cards(shot.slide, config)
                ELSE Built(shot.slide)
    IN IF body.raised THEN body ELSE Built(add_speaker_notes(body.slide, slide_7_notes))

slide_8_audit(config, fsys, screenshots_dir) ==
    screenshot_slide("audit", 8, "TIMING: 30 seconds / SAY: Complete traceability",
                     fsys, screenshots_dir)

slide_9_roadmap(config) ==
    LET s0 == add_action_title(add_context_label(NewSlide("roadmap")))
        RoadmapItem(i) == <<Rect("textbox", "roadmap_item", 100, Advanced(330, 80, i), 480, 70)>>
        s1 == AddShapes(s0, RowShapes([k \in 1..Handled(config.roadmap_items) |-> RoadmapItem(k - 1)]))
        Gap(i) == <<Rect("textbox", "gap", 665, Advanced(330, 80, i), 480, 70)>>
        s3 == AddShapes(s1, RowShapes([k \in 1..Handled(config.gaps) |-> Gap(k - 1)]))
    IN IF FirstBad(config.roadmap_items) # 0 THEN Raised(s1)
       ELSE IF FirstBad(config.gaps) # 0 THEN Raised(s3)
       ELSE Built(add_speaker_notes(s3, "TIMING: 30 seconds / SAY: Be honest about gaps"))

slide_10_ask(config) ==
    LET s0 == add_action_title(add_context_label(NewSlide("ask")))
    IN Built(add_speaker_notes(s0, "TIMING: 30 seconds / SAY: Be specific about what you need"))

----------------------------------------------------------------------------
(* Palettes                                                                *)

BaseColors ==
    [primary |-> "0066CC", primary_dark |-> "0052A3", secondary |-> "1E293B",
     accent |-> "10B981", warning |-> "D97706", danger |-> "DC2626",
     success |-> "16A34A", purple |-> "8B5CF6", white |-> "FFFFFF",
     light_gray |-> "F8FAFC", muted |-> "64748B", border |-> "E2E8F0"]

IcebergColors ==
    [primary |-> "0066CC", primary_dark |-> "0052A3", secondary |-> "1E293B",
     accent |-> "10B981", warning |-> "D97706", danger |-> "DC2626",
     success |-> "16A34A", purple |-> "8B5CF6", white |-> "FFFFFF",
     light_gray |-> "F8FAFC", muted |-> "64748B", border |-> "E2E8F0",
     sky |-> "E0F2FE", sky_mid |-> "BAE6FD", ocean |-> "0284C7",
     ocean_deep |-> "0C4A6E", text_light |-> "FFFFFF", text_sky |-> "0369A1"]

PALETTES == [default |-> BaseColors, iceberg |-> IcebergColors]

\* PALETTES.get(palette, COLORS): an unknown name keeps the current palette.
SelectPaletteKeep(palette, current) ==
    IF palette \in DOMAIN PALETTES THEN palette ELSE current

\* PALETTES.get(palette, PALETTES['default']), line 781; `current` is COLORS
\* before the assignment.
SelectPalette(palette, current) ==
    IF palette \in DOMAIN PALETTES THEN palette ELSE "default"

----------------------------------------------------------------------------
(* The directories and inputs of the model                                 *)

RECURSIVE SubsetsUpTo(_, _)
\* The subsets of S with at most k elements.
SubsetsUpTo(S, k) ==
    IF k = 0 THEN {{}}
    ELSE LET smaller == SubsetsUpTo(S, k - 1)
         IN smaller \cup {d \cup {f} : d \in smaller, f \in S}

\* Largest number of entries of a directory.
MaxDeckFiles == 2
MaxFindFiles == 2

\* The entries that are symbolic links to a missing target.
BrokenLinks == {<<"0", "5">> \o png, <<"l", "4">> \o png, <<"l", "n", "k">> \o jpg}

\* The directory is missing, or holds up to k of the names; fs.links are its
\* entries that are broken links.
FsStates(names, k) ==
    {[exists |-> FALSE, entries |-> {}, links |-> {}]}
    \cup {[exists |-> TRUE, entries |-> d, links |-> d \cap BrokenLinks] :
              d \in SubsetsUpTo(names, k)}

\* Names of the files a generate_presentation run may find.
DeckFiles ==
    {<<"4">> \o png, <<"0", "4">> \o jpg, <<"1", "4">> \o png, <<"5">> \o png,
     <<"6">> \o png, SCREENSHOT_SLIDES[7] \o jpeg, <<"8">> \o png,
     <<"0", "8">> \o UpperStr(jpg), <<"0", "5">> \o png}

\* Names of the files find_screenshot is tried on for two slides: those, and
\* one that holds every slide number.
ResolveFiles == DeckFiles \cup {<<"4", "5", "6", "7", "8">> \o png}

\* Names of the files find_screenshot is tried on: every stem with every
\* extension, the six the code accepts and one it does not.
arch == <<"a", "r", "c", "h">>
FindStems == {<<"0", "4">>, <<"4">>, <<"a", "4">>, <<"4", "5">>, <<"1", "2">>, arch}
FindExts == {png, jpg, jpeg, UpperStr(png), UpperStr(jpg), UpperStr(jpeg),
             <<".", "P", "n", "g">>}
lnk == <<"l", "n", "k">>
FindFiles ==
    {st \o e : st \in FindStems, e \in FindExts}
    \cup {<<"l", "4">> \o png, lnk \o jpg}
FindNames == {SCREENSHOT_SLIDES[4], arch, lnk}
FindNums == {4, 12}

DirArgs == {PyNone, EmptyStr, ShotsDir}
PaletteArgs == {"default", "iceberg", "neon"}

\* Longest list a config gives for one key.
MaxEntries == 1

RECURSIVE ListsUpTo(_)
ListsUpTo(k) ==
    IF k = 0 THEN {<<>>}
    ELSE LET shorter == ListsUpTo(k - 1)
         IN shorter \cup {Append(l, e) : l \in shorter, e \in {"ok", "bad"}}

\* The configs of a run: the default one (config None or {}), and it with its
\* 'metrics' list replaced.
Configs ==
    {DefaultConfig} \cup {[DefaultConfig EXCEPT !.metrics = l] : l \in ListsUpTo(MaxEntries)}

----------------------------------------------------------------------------
(* generate_presentation                                                   *)

NoCall == [config |-> DefaultConfig, screenshots_dir |-> PyNone, palette |-> "default"]
NoRet == [fn |-> "none"]

\* Line 793 without its exists() test.
CheckScreenshotsAnyDir(fsys, screenshots_dir) ==
    IF ~Falsy(screenshots_dir)
    THEN LET hit == {n \in 4..8 :
                        find_screenshot(fsys, screenshots_dir, SCREENSHOT_SLIDES[n], n)
                        # None}
         IN [found |-> SelectSeq(<<4, 5, 6, 7, 8>>, LAMBDA n : n \in hit),
             missing |-> SelectSeq(<<4, 5, 6, 7, 8>>, LAMBDA n : n \notin hit)]
    ELSE [found |-> <<>>, missing |-> <<>>]

\* Lines 791-799: [found, missing], the slide numbers of SCREENSHOT_SLIDES in
\* its order, split by whether find_screenshot finds a file.
CheckScreenshots(fsys, screenshots_dir) ==
    IF ~Falsy(screenshots_dir) /\ fsys.exists
    THEN LET hit == {n \in 4..8 :
                        find_screenshot(fsys, screenshots_dir, SCREENSHOT_SLIDES[n], n)
                        # None}
         IN [found |-> SelectSeq(<<4, 5, 6, 7, 8>>, LAMBDA n : n \in hit),
             missing |-> SelectSeq(<<4, 5, 6, 7, 8>>, LAMBDA n : n \notin hit)]
    ELSE [found |-> <<>>, missing |-> <<>>]

Start ==
    /\ pc = "idle"
    /\ \E config \in Configs, screenshots_dir \in DirArgs, palette \in PaletteArgs :
          /\ call' = [config |-> config, screenshots_dir |-> screenshots_dir,
                      palette |-> palette]
          /\ prevCOLORS' = COLORS
          /\ COLORS' = SelectPalette(palette, COLORS)
          /\ screenshots_found' = CheckScreenshots(fs, screenshots_dir).found
          /\ screenshots_missing' = CheckScreenshots(fs, screenshots_dir).missing
          /\ stdout' = IF ~Falsy(screenshots_dir) /\ fs.exists
                       THEN <<[line |-> "directory", slides |-> <<>>]>> ELSE <<>>
    /\ prs' = <<>>
    /\ output' = <<>>
    /\ saves' = 0
    /\ pc' = "slide_1"
    /\ UNCHANGED <<fs, ret>>

\* One builder call of lines 802-811: the slide is added to prs, and the call
\* returns or raises.
Build(at, next, built) ==
    /\ pc = at
    /\ prs' = Append(prs, built.slide)
    /\ pc' = IF built.raised THEN "raised" ELSE next
    /\ UNCHANGED <<fs, COLORS, prevCOLORS, call, screenshots_found,
                   screenshots_missing, output, saves, stdout, ret>>

Slide1 == Build("slide_1", "slide_2", slide_1_title(call.config))
Slide2 == Build("slide_2", "slide_3", slide_2_problem_iceberg(call.config))
Slide3 == Build("slide_3", "slide_4", slide_3_scale(call.config))
Slide4 == Build("slide_4", "slide_5", slide_4_architecture(call.config, fs, call.screenshots_dir))
\* Line 806 calling the builder of line 807.
Slide5Pasted == Build("slide_5", "slide_6", slide_6_demo_edge(call.config, fs, call.screenshots_dir))

Slide5 == Build("slide_5", "slide_6", slide_5_demo_good(call.config, fs, call.screenshots_dir))
Slide6 == Build("slide_6", "slide_7", slide_6_demo_edge(call.config, fs, call.screenshots_dir))
Slide7 == Build("slide_7", "slide_8", slide_7_proof(call.config, fs, call.screenshots_dir))
Slide8 == Build("slide_8", "slide_9", slide_8_audit(call.config, fs, call.screenshots_dir))
Slide9 == Build("slide_9", "slide_10", slide_9_roadmap(call.config))
Slide10 == Build("slide_10", "save", slide_10_ask(call.config))

\* prs.save and the report in a `finally:` block: run after a builder raised
\* as well.
SaveInFinally ==
    /\ pc \in {"save", "raised"}
    /\ output' = prs
    /\ saves' = saves + 1
    /\ stdout' = stdout \o <<[line |-> "generated", slides |-> <<>>]>>
    /\ pc' = "done"
    /\ UNCHANGED <<fs, COLORS, prevCOLORS, call, prs, screenshots_found,
                   screenshots_missing, ret>>

\* Lines 813-821.
Save ==
    /\ pc = "save"
    /\ output' = prs
    /\ saves' = saves + 1
    /\ stdout' = stdout
          \o <<[line |-> "generated", slides |-> <<>>],
               [line |-> "10 slides", slides |-> <<>>]>>
          \o (IF screenshots_found # <<>>
              THEN <<[line |-> "inserted", slides |-> screenshots_found]>> ELSE <<>>)
          \o (IF screenshots_missing # <<>>
              THEN <<[line |-> "missing", slides |-> screenshots_missing],
                     [line |-> "add to", slides |-> <<>>]>> ELSE <<>>)
    /\ pc' = "done"
    /\ UNCHANGED <<fs, COLORS, prevCOLORS, call, prs, screenshots_found,
                   screenshots_missing, ret>>

\* generate_presentation returns, or its exception reaches the caller: the
\* module-level COLORS is what outlives the call.  The next call writes to
\* another output_path.
Return ==
    /\ pc \in {"done", "raised"}
    /\ pc' = "idle"
    /\ prevCOLORS' = COLORS
    /\ call' = [NoCall EXCEPT !.palette = call.palette]
    /\ prs' = <<>>
    /\ screenshots_found' = <<>>
    /\ screenshots_missing' = <<>>
    /\ output' = <<>>
    /\ saves' = 0
    /\ stdout' = <<>>
    /\ UNCHANGED <<fs, COLORS, ret>>

Idle ==
    /\ COLORS = "default"
    /\ prevCOLORS = "default"
    /\ pc = "idle"
    /\ call = NoCall
    /\ prs = <<>>
    /\ screenshots_found = <<>>
    /\ screenshots_missing = <<>>
    /\ output = <<>>
    /\ saves = 0
    /\ stdout = <<>>
    /\ ret = NoRet

Init == fs \in FsStates(DeckFiles, MaxDeckFiles) /\ Idle

Next ==
    \/ Start
    \/ Slide1 \/ Slide2 \/ Slide3 \/ Slide4 \/ Slide5
    \/ Slide6 \/ Slide7 \/ Slide8 \/ Slide9 \/ Slide10
    \/ Save
    \/ Return

Spec == Init /\ [][Next]_vars

----------------------------------------------------------------------------
(* Direct calls of the two helpers: one call per behaviour                 *)

FindCall ==
    /\ ret = NoRet
    /\ \E screenshots_dir \in DirArgs, slide_name \in FindNames, slide_num \in FindNums :
          ret' = [fn |-> "find_screenshot", screenshots_dir |-> screenshots_dir,
                  slide_name |-> slide_name, slide_num |-> slide_num,
                  result |-> find_screenshot(fs, screenshots_dir, slide_name, slide_num)]
    /\ UNCHANGED <<fs, COLORS, prevCOLORS, pc, call, prs, screenshots_found,
                   screenshots_missing, output, saves, stdout>>

InitFind == fs \in FsStates(FindFiles, MaxFindFiles) /\ Idle

SpecFind == InitFind /\ [][FindCall]_vars

\* Largest pixel width and height of an image, and largest side of a bounding
\* box (in hundredths of an inch) besides the two boxes the builders use.
MaxPixels == 4
MaxBox == 3

FitImages == {[w |-> w, h |-> h] : w \in 1..MaxPixels, h \in 1..MaxPixels}
FitBoxes ==
    {[w |-> 1150, h |-> 420], [w |-> 1150, h |-> 350]}
    \cup {[w |-> w, h |-> h] : w \in 1..MaxBox, h \in 1..MaxBox}
FitCorners == {[x |-> 75, y |-> 230], [x |-> 0, y |-> 0]}
FitFile == <<"4">> \o png
FitPaths == {None, PathOf(ShotsDir, FitFile), PathOf(ShotsDir, <<"5">> \o png)}

FitCall ==
    /\ ret = NoRet
    /\ \E path \in FitPaths, img \in FitImages, box \in FitBoxes, at \in FitCorners :
          ret' = [fn |-> "add_screenshot", screenshot_path |-> path, img |-> img,
                  x |-> at.x, y |-> at.y, max_width |-> box.w, max_height |-> box.h,
                  result |-> add_screenshot(NewSlide("scratch"), fs, path, img,
                                            at.x, at.y, box.w, box.h)]
    /\ UNCHANGED <<fs, COLORS, prevCOLORS, pc, call, prs, screenshots_found,
                   screenshots_missing, output, saves, stdout>>

InitFit == fs = [exists |-> TRUE, entries |-> {FitFile}, links |-> {}] /\ Idle

SpecFit == InitFit /\ [][FitCall]_vars

\* find_screenshot called for two slides of SCREENSHOT_SLIDES on one directory,
\* as the loop of lines 795-799 and the builders do.
ResolveCall ==
    /\ ret = NoRet
    /\ \E m \in DOMAIN SCREENSHOT_SLIDES, n \in DOMAIN SCREENSHOT_SLIDES :
          /\ m # n
          /\ ret' = [fn |-> "find_screenshot for two slides", m |-> m, n |-> n,
                     for_m |-> find_screenshot(fs, ShotsDir, SCREENSHOT_SLIDES[m], m),
                     for_n |-> find_screenshot(fs, ShotsDir, SCREENSHOT_SLIDES[n], n)]
    /\ UNCHANGED <<fs, COLORS, prevCOLORS, pc, call, prs, screenshots_found,
                   screenshots_missing, output, saves, stdout>>

InitResolve == fs \in FsStates(ResolveFiles, MaxDeckFiles) /\ Idle

SpecResolve == InitResolve /\ [][ResolveCall]_vars

\* Direct calls of the builders that lay out one shape per entry of a config
\* list.  Longest such list; an entry is modelled by its title, "bad" being an
\* entry of the wrong shape.
MaxRow == 4
RowEntries == {"ok", "second", "bad"}

RECURSIVE ListsOf(_, _)
ListsOf(entries, k) ==
    IF k = 0 THEN {<<>>}
    ELSE LET shorter == ListsOf(entries, k - 1)
         IN shorter \cup {Append(l, e) : l \in shorter, e \in entries}

RowKeys == {"pillars", "below_items", "stats", "metrics"}
RowConfigs ==
    {[DefaultConfig EXCEPT ![key] = l] : key \in RowKeys, l \in ListsOf(RowEntries, MaxRow)}
RowBuilders == {"slide_1_title", "slide_2_problem_iceberg", "slide_3_scale", "slide_7_proof"}

RowCall ==
    /\ ret = NoRet
    /\ \E config \in RowConfigs, builder \in RowBuilders :
          ret' = [fn |-> builder, config |-> config,
                  result |->
                      CASE builder = "slide_1_title" -> slide_1_title(config)
                        [] builder = "slide_2_problem_iceberg" -> slide_2_problem_iceberg(config)
                        [] builder = "slide_3_scale" -> slide_3_scale(config)
                        [] builder = "slide_7_proof" -> slide_7_proof(config, fs, ShotsDir)]
    /\ UNCHANGED <<fs, COLORS, prevCOLORS, pc, call, prs, screenshots_found,
                   screenshots_missing, output, saves, stdout>>

InitRow == fs \in FsStates({SCREENSHOT_SLIDES[7] \o jpeg}, 1) /\ Idle

SpecRow == InitRow /\ [][RowCall]_vars

----------------------------------------------------------------------------
(* Claims about add_screenshot, under SpecFit                              *)

FitDone == ret.fn = "add_screenshot" /\ ret.result.ok

\* The picture a successful add_screenshot call added: the last shape.
FitPicture == ret.result.slide.shapes[Len(ret.result.slide.shapes)]

\* C1: for every image of positive pixel size and every positive max_width and
\* max_height, the picture add_screenshot places is at most max_width wide and
\* max_height high, and its rectangle lies inside [x, x + max_width] by
\* [y, y + max_height].
C1_PictureFitsBox ==
    FitDone =>
        LET p == FitPicture
            right == QAdd(p.left, p.width)
            bottom == QAdd(p.top, p.height)
        IN /\ p.type = "picture"
           /\ QLe(p.width, QInt(ret.max_width))
           /\ QLe(p.height, QInt(ret.max_height))
           /\ QLe(QInt(ret.x), p.left)
           /\ QLe(right, QInt(ret.x + ret.max_width))
           /\ QLe(QInt(ret.y), p.top)
           /\ QLe(bottom, QInt(ret.y + ret.max_height))

\* A picture narrower than its box, centred strictly inside it.
C1_Witness ==
    /\ FitDone
    /\ QLt(FitPicture.width, QInt(ret.max_width))
    /\ QLt(QInt(ret.x), FitPicture.left)
    /\ ret.img.w # ret.img.h

\* C2: the picture keeps the image's aspect ratio (width * img_height =
\* height * img_width) and touches the box: its width is max_width or its
\* height is max_height.
C2_KeepsAspectRatio ==
    FitDone =>
        LET p == FitPicture
        IN /\ QEq(QMul(p.width, QInt(ret.img.h)), QMul(p.height, QInt(ret.img.w)))
           /\ \/ QEq(p.width, QInt(ret.max_width))
              \/ QEq(p.height, QInt(ret.max_height))

\* A picture as wide as its box and lower than it, of an image that is not square.
C2_Witness ==
    /\ FitDone
    /\ QEq(FitPicture.width, QInt(ret.max_width))
    /\ QLt(FitPicture.height, QInt(ret.max_height))
    /\ ret.img.w # ret.img.h
    /\ ret.max_width = 1150

----------------------------------------------------------------------------
(* Claims about find_screenshot, under SpecFind                            *)

\* The six extensions the claims name, by rank: .png, .jpg, .jpeg, in lower or
\* upper case.
NamedExts ==
    <<{<<".", "p", "n", "g">>, <<".", "P", "N", "G">>},
      {<<".", "j", "p", "g">>, <<".", "J", "P", "G">>},
      {<<".", "j", "p", "e", "g">>, <<".", "J", "P", "E", "G">>}>>

\* name = a + mid + b + ext for some strings a and b.
IsMidThenExt(name, mid, ext) ==
    \E la \in 0..Len(name) :
        /\ la + Len(mid) + Len(ext) <= Len(name)
        /\ \A i \in 1..Len(mid) : name[la + i] = mid[i]
        /\ \A i \in 1..Len(ext) : name[Len(name) - Len(ext) + i] = ext[i]

\* The entries that match "*<mid>*" followed by an extension of rank r.
Ranked(entries, mid, r) ==
    {e \in entries : \E ext \in NamedExts[r] : IsMidThenExt(e, mid, ext)}

Matching(entries, mid) == UNION {Ranked(entries, mid, r) : r \in 1..3}

\* The entries whose name is one of the exact names with one of the extensions.
ExactlyNamed(entries, slide_name, n) ==
    {e \in entries :
        \E base \in {slide_name, slide_ \o Pad2(n), Slide_ \o Pad2(n), Pad2(n), Str(n)},
           r \in 1..3 : \E ext \in NamedExts[r] : e = base \o ext}

FindDone == ret.fn = "find_screenshot" /\ ret.screenshots_dir = ShotsDir /\ fs.exists

\* C3: for an existing directory, the result is the path of an entry that
\* exists in the directory, and it is None exactly when no entry matches a glob
\* pattern (*NN* or *N* followed by .png, .jpg or .jpeg in lower or upper case)
\* and no entry has an exact name (slide_name, slide_NN, Slide_NN, NN, N with
\* those extensions).
C3_FirstMatchOrNone ==
    FindDone =>
        LET n == ret.slide_num
            candidates ==
                Matching(fs.entries, Pad2(n)) \cup Matching(fs.entries, Str(n))
                \cup ExactlyNamed(fs.entries, ret.slide_name, n)
        IN /\ ret.result # None =>
                  /\ ret.result.parent = ShotsDir
                  /\ ret.result.name \in fs.entries
                  /\ Exists(fs, ret.result)
           /\ ret.result = None <=> candidates = {}
           /\ ret.result # None => ret.result.name \in candidates

\* A file found by its exact name alone, beside an entry that is no candidate.
C3_Witness ==
    /\ FindDone
    /\ ret.slide_name = arch
    /\ ret.result = PathOf(ShotsDir, arch \o <<".", "J", "P", "G">>)
    /\ Matching(fs.entries, Str(ret.slide_num)) = {}
    /\ Cardinality(fs.entries) = 2

\* C10: candidates are taken in a fixed priority: an entry containing the
\* zero-padded number before any that only contains the unpadded number,
\* whatever their extensions; within one pattern .png before .jpg before .jpeg;
\* within one pattern and extension (either case) the lexicographically
\* smallest; exact names only when no pattern matched.
C10_Priority ==
    FindDone =>
        LET n == ret.slide_num
            padded == Matching(fs.entries, Pad2(n))
            unpadded == Matching(fs.entries, Str(n))
            mid == IF padded # {} THEN Pad2(n) ELSE Str(n)
            pool == Matching(fs.entries, mid)
            r == ret.result.name
        IN /\ padded # {} => r \in padded
           /\ pool # {} =>
                  /\ r \in pool
                  /\ \E k \in 1..3 :
                        /\ r \in Ranked(fs.entries, mid, k)
                        /\ \A j \in 1..(k - 1) : Ranked(fs.entries, mid, j) = {}
                        /\ \A e \in Ranked(fs.entries, mid, k) : e = r \/ StrLess(r, e)
           /\ (ret.result # None /\ r \notin padded \cup unpadded) =>
                  padded \cup unpadded = {}

\* A .jpeg entry with the padded number wins over a .png entry with the
\* unpadded number only.
C10_Witness ==
    /\ FindDone
    /\ ret.slide_num = 4
    /\ fs.entries = {<<"0", "4">> \o jpeg, <<"a", "4">> \o png}
    /\ ret.result = PathOf(ShotsDir, <<"0", "4">> \o jpeg)

----------------------------------------------------------------------------
(* Claims about the deck, under Spec                                       *)

\* The positions in prs of the slides whose builder has returned.
Returned == IF pc = "raised" THEN 1..(Len(prs) - 1) ELSE 1..Len(prs)

\* What a screenshot slide carries besides its context label and action title.
BodyOf(slide) == SubSeq(slide.shapes, 3, Len(slide.shapes))

IsPicture(shape) == shape.type = "picture"
IsPlaceholder(shape) == shape.type = "rounded_rectangle" /\ shape.role = "placeholder"

PictureCount(shapes) == Cardinality({i \in 1..Len(shapes) : IsPicture(shapes[i])})
MetricCount(shapes) == Cardinality({i \in 1..Len(shapes) : shapes[i].role = "metric"})

\* What find_screenshot returns for slide n in the running call.
FoundFor(n) == find_screenshot(fs, call.screenshots_dir, SCREENSHOT_SLIDES[n], n)

DirGiven == call.screenshots_dir = ShotsDir /\ fs.exists

KindsInOrder ==
    <<"title", "problem", "scale", "architecture", "demo_good", "demo_edge",
      "proof", "audit", "roadmap", "ask">>

\* C4: file not found leads to the placeholder.  Each of the slides 4, 5, 6 and
\* 8 carries exactly one of a screenshot picture or a placeholder, slide 7
\* exactly one of a screenshot picture or the metric cards (one card per entry
\* of 'metrics'); the picture is there exactly when find_screenshot returned a
\* path that exists, and nothing else is added when it is not.
C4_PictureOrPlaceholder ==
    \A n \in (4..8) \cap Returned :
        LET body == BodyOf(prs[n])
            found == FoundFor(n) # None /\ Exists(fs, FoundFor(n))
            onePicture ==
                /\ Len(body) = 1
                /\ IsPicture(body[1])
                /\ body[1].file = FoundFor(n).name
            onePlaceholder == Len(body) = 1 /\ IsPlaceholder(body[1])
            metricCards ==
                /\ MetricCount(body) = Len(call.config.metrics)
                /\ \A i \in 1..Len(body) :
                      body[i].role \in {"metric", "card_title", "card_content", "metric_value"}
        IN /\ prs[n].kind = KindsInOrder[n]
           /\ found <=> onePicture
           /\ IF n = 7 THEN ~found <=> metricCards ELSE ~found <=> onePlaceholder
           /\ ~(onePicture /\ (IF n = 7 THEN metricCards ELSE onePlaceholder))

\* A saved deck with a picture on slide 4, a placeholder on slide 5 and the one
\* metric card of a one-entry 'metrics' list on slide 7.
C4_Witness ==
    /\ pc = "done"
    /\ IsPicture(BodyOf(output[4])[1])
    /\ IsPlaceholder(BodyOf(output[5])[1])
    /\ Len(call.config.metrics) = 1
    /\ MetricCount(BodyOf(output[7])) = 1

\* C5: a successful generate_presentation saves a deck of exactly 10 slides, in
\* the order title, problem, scale, architecture, demo happy path, demo edge
\* case, proof, audit, roadmap, ask, whatever the config, directory and palette.
C5_TenSlidesInOrder ==
    /\ pc = "done" => saves = 1 /\ output = prs
    /\ output # <<>> => [i \in 1..Len(output) |-> output[i].kind] = KindsInOrder
    /\ \A i \in 1..Len(prs) : prs[i].kind = KindsInOrder[i]

\* A deck saved from a config with no metrics, an existing directory and the
\* iceberg palette.
C5_Witness ==
    /\ pc = "done"
    /\ Len(output) = 10
    /\ call.config.metrics = <<>>
    /\ DirGiven /\ fs.entries # {}
    /\ call.palette = "iceberg"

\* C6: every slide a builder has returned has non-empty speaker notes, set
\* exactly once, on every path through its builder.
C6_NotesOnce ==
    \A i \in Returned : Len(prs[i].notes) = 1 /\ prs[i].notes[1] # ""

\* A saved deck whose slide 7 took the screenshot path and whose slide 4 took
\* the placeholder path.
C6_Witness ==
    /\ pc = "done"
    /\ Len(BodyOf(output[7])) = 1
    /\ IsPicture(BodyOf(output[7])[1])
    /\ IsPlaceholder(BodyOf(output[4])[1])
    /\ \A i \in 1..10 : Len(output[i].notes) = 1

\* The file the placeholder label of slide n names.
LabelFile(n) == Str(n) \o <<".", "p", "n", "g">>

LabelFilePresent(n) ==
    pc = "done" /\ DirGiven /\ Exists(fs, PathOf(ShotsDir, LabelFile(n)))

\* C7 as stated: when the directory holds the file the placeholder label names
\* (4.png, 5.png, 6.png, 8.png), the slide carries a picture of that very file
\* instead of the placeholder, whatever other files the directory holds.
C7_Original ==
    \A n \in {4, 5, 6, 8} :
        LabelFilePresent(n) =>
            LET body == BodyOf(output[n])
            IN Len(body) = 1 /\ IsPicture(body[1]) /\ body[1].file = LabelFile(n)

\* An entry find_screenshot takes before N.png: one with the zero-padded number
\* and any of the extensions, or a .png/.PNG name with the number that sorts
\* before N.png.
TakenBefore(n) ==
    Matching(fs.entries, Pad2(n))
    \cup {e \in Ranked(fs.entries, Str(n), 1) : StrLess(e, LabelFile(n))}

\* C7 amended: the slide of the saved deck carries a picture of N.png exactly
\* when the directory holds no entry that find_screenshot takes before it;
\* otherwise it carries a picture of such an entry, or the placeholder when the
\* entry taken is a symbolic link to a missing target.
C7_LabelFileUnlessOutranked ==
    \A n \in {4, 5, 6, 8} :
        LabelFilePresent(n) =>
            LET body == BodyOf(output[n])
                taken == FoundFor(n).name
            IN /\ Len(body) = 1
               /\ IsPicture(body[1]) \/ IsPlaceholder(body[1])
               /\ (IsPicture(body[1]) /\ body[1].file = LabelFile(n))
                      <=> TakenBefore(n) = {}
               /\ TakenBefore(n) # {} => taken \in TakenBefore(n)
               /\ IsPicture(body[1]) => body[1].file = taken /\ taken \notin fs.links
               /\ IsPlaceholder(body[1]) <=> taken \in fs.links

\* Slide 4 shows 14.png although the directory holds 4.png.
C7_Witness ==
    /\ LabelFilePresent(4)
    /\ <<"1", "4">> \o png \in fs.entries
    /\ BodyOf(output[4])[1].file = <<"1", "4">> \o png

\* A config none of whose lists holds a wrong-shaped entry.
WellFormed(config) ==
    \A key \in DOMAIN config : \A i \in 1..Len(config[key]) : config[key][i] = "ok"

\* C8: with no screenshots directory (None or the empty string) or one that
\* does not exist, find_screenshot returns None for every slide and the full
\* deck is still built and saved, with a placeholder on slides 4, 5, 6 and 8,
\* the metric cards on slide 7, and both screenshot lists empty.
C8_NoDirectory ==
    (pc # "idle" /\ ~DirGiven) =>
        /\ \A n \in 4..8 : FoundFor(n) = None
        /\ screenshots_found = <<>> /\ screenshots_missing = <<>>
        /\ \A i \in 1..Len(stdout) : stdout[i].line \in {"generated", "10 slides"}
        /\ pc = "raised" => ~WellFormed(call.config)
        /\ pc = "done" =>
              /\ Len(output) = 10
              /\ \A n \in {4, 5, 6, 8} :
                    Len(BodyOf(output[n])) = 1 /\ IsPlaceholder(BodyOf(output[n])[1])
              /\ PictureCount(output[7].shapes) = 0
              /\ MetricCount(output[7].shapes)
                    = Len(call.config.metrics)

\* A deck saved although the directory given does not exist.
C8_Witness ==
    /\ pc = "done"
    /\ call.screenshots_dir = ShotsDir
    /\ ~fs.exists
    /\ Len(output) = 10
    /\ stdout = <<[line |-> "generated", slides |-> <<>>],
                  [line |-> "10 slides", slides |-> <<>>]>>

\* C9: COLORS is the palette named in the most recent call when that name is a
\* key of PALETTES ('default', 'iceberg') and the 'default' palette otherwise:
\* a palette chosen by an earlier call never carries over.
C9_PaletteOfLatestCall ==
    /\ COLORS \in DOMAIN PALETTES
    /\ PALETTES[COLORS] =
          (IF call.palette = "iceberg" THEN IcebergColors ELSE BaseColors)
    /\ (call.palette \notin {"default", "iceberg"}) => COLORS = "default"

\* A call with an unknown palette name, made while COLORS was the iceberg
\* palette, has reset COLORS to the default palette.
C9_Witness ==
    /\ pc = "done"
    /\ prevCOLORS = "iceberg"
    /\ call.palette = "neon"
    /\ COLORS = "default"

\* The slide numbers a line of the run's output reports (no such line: none).
ReportedAs(kind) ==
    UNION {{stdout[i].slides[j] : j \in 1..Len(stdout[i].slides)} :
              i \in {k \in 1..Len(stdout) : stdout[k].line = kind}}

\* The slides of 4 to 8 of the saved deck that carry a picture, and those that
\* carry the placeholder or the metric cards.
WithPicture == {n \in 4..8 : PictureCount(BodyOf(output[n])) = 1}
WithoutPicture == {n \in 4..8 : PictureCount(BodyOf(output[n])) = 0}

\* C11: with an existing screenshots directory, the slide numbers reported as
\* 'Screenshots inserted' are exactly the slides of 4 to 8 that carry a picture
\* in the saved deck, those reported as missing are exactly the slides that
\* carry the placeholder or the metric cards, and the two lists are disjoint
\* and together cover 4 to 8.
C11_ReportMatchesDeck ==
    (pc = "done" /\ DirGiven) =>
        /\ ReportedAs("inserted") = WithPicture
        /\ ReportedAs("missing") = WithoutPicture
        /\ ReportedAs("inserted") \cap ReportedAs("missing") = {}
        /\ ReportedAs("inserted") \cup ReportedAs("missing") = 4..8

----------------------------------------------------------------------------
(* Claims about the rows of cards and the iceberg items, under SpecRow     *)

\* The shapes of a slide that play a role, in drawing order.
ShapesOf(slide, role) == SelectSeq(slide.shapes, LAMBDA sh : sh.role = role)

\* Two shapes of one row overlap when neither ends before the other starts.
Overlap(a, b) == a.left < b.left + b.width /\ b.left < a.left + a.width

\* The cards of a row stand where a step of `step` from 0.75 inch puts them,
\* with one top and one size, and no two overlap.
RowAdvances(row, step) ==
    /\ \A i \in 1..Len(row) :
          /\ row[i].left = 75 + (i - 1) * step
          /\ row[i].top = row[1].top
          /\ row[i].width = row[1].width
          /\ row[i].height = row[1].height
          /\ row[i].width < step
    /\ \A i, j \in 1..Len(row) : i # j => ~Overlap(row[i], row[j])

\* C12: card rows advance sequentially.  In slide_1_title (pillars),
\* slide_3_scale (stats) and the metric cards of slide_7_proof the i-th card's
\* left edge is 0.75 inch plus i times the step (3.9, 4.0, 3.9 inches), the
\* cards of a row share top and size, one card is drawn per entry, and no two
\* cards of a row overlap, however many entries the list has.
C12_RowsAdvance ==
    /\ ret.fn = "slide_1_title" =>
          /\ RowAdvances(ShapesOf(ret.result.slide, "pillar"), 390)
          /\ Len(ShapesOf(ret.result.slide, "pillar")) = Handled(ret.config.pillars)
    /\ ret.fn = "slide_3_scale" =>
          /\ RowAdvances(ShapesOf(ret.result.slide, "stat"), 400)
          /\ Len(ShapesOf(ret.result.slide, "stat")) = Handled(ret.config.stats)
    /\ ret.fn = "slide_7_proof" =>
          /\ RowAdvances(ShapesOf(ret.result.slide, "metric"), 390)
          /\ Len(ShapesOf(ret.result.slide, "metric")) =
                 IF fs.entries = {} THEN Handled(ret.config.metrics) ELSE 0

\* A row of MaxRow metric cards on slide 7: the last card starts MaxRow - 1
\* steps from 0.75 inch.
C12_Witness ==
    /\ ret.fn = "slide_7_proof" /\ ~ret.result.raised
    /\ Len(ShapesOf(ret.result.slide, "metric")) = MaxRow
    /\ ShapesOf(ret.result.slide, "metric")[MaxRow].left = 75 + 390 * (MaxRow - 1)
    /\ ShapesOf(ret.result.slide, "metric")[MaxRow].top = 280

\* A shape lies inside another.
Inside(a, b) ==
    /\ b.left <= a.left /\ a.left + a.width <= b.left + b.width
    /\ b.top <= a.top /\ a.top + a.height <= b.top + b.height

\* C13: slide_2_problem_iceberg draws at most the first three entries of
\* 'iceberg_below_items', in list order, however many the config supplies, and
\* every drawn item's textbox lies inside the ocean rectangle (left 6.3, top
\* 4.2, width 5.7, height 2.6 inches).
C13_FirstThreeInOcean ==
    ret.fn = "slide_2_problem_iceberg" =>
        LET boxes == ShapesOf(ret.result.slide, "below_item")
            ocean == ShapesOf(ret.result.slide, "ocean")
            list == ret.config.below_items
        IN /\ Len(boxes) <= 3 /\ Len(boxes) <= Len(list)
           /\ ~ret.result.raised => Len(boxes) = Min2(3, Len(list))
           /\ \A k \in 1..Len(boxes) :
                 /\ boxes[k].text = (IF list[k] = "bad" THEN "" ELSE list[k])
                 /\ Len(ocean) = 1
                 /\ Inside(boxes[k], ocean[1])
           /\ \A i, j \in 1..Len(boxes) : i < j => boxes[i].top < boxes[j].top
           /\ Len(ocean) = 1 =>
                 /\ ocean[1].left = 630 /\ ocean[1].top = 420
                 /\ ocean[1].width = 570 /\ ocean[1].height = 260

\* A list of four items whose first three are drawn, the second with another
\* title than the first.
C13_Witness ==
    /\ ret.fn = "slide_2_problem_iceberg" /\ ~ret.result.raised
    /\ Len(ret.config.below_items) = 4
    /\ Len(ShapesOf(ret.result.slide, "below_item")) = 3
    /\ ShapesOf(ret.result.slide, "below_item")[1].text = "ok"
    /\ ShapesOf(ret.result.slide, "below_item")[2].text = "second"
    /\ ShapesOf(ret.result.slide, "below_item")[3].top = 590

----------------------------------------------------------------------------
(* Claims about saving, under Spec                                         *)

\* The lines generate_presentation prints after prs.save.
SuccessLines == {"generated", "10 slides", "inserted", "missing", "add to"}

\* C14: generate_presentation writes the output file at most once and only
\* after all ten slide builders have returned; when a builder raises, no output
\* file is written and no success line is printed.
C14_SaveOnceAfterAllBuilders ==
    /\ saves <= 1
    /\ output # <<>> <=> saves = 1
    /\ saves = 1 =>
          /\ pc = "done"
          /\ Len(prs) = 10
          /\ output = prs
          /\ \A i \in 1..10 : Len(prs[i].notes) = 1
    /\ pc # "done" =>
          /\ saves = 0
          /\ \A i \in 1..Len(stdout) : stdout[i].line \notin SuccessLines
    /\ pc = "raised" => Len(prs) \in 1..9 /\ prs[Len(prs)].notes = <<>>

\* Slide 8's builder has raised on a file that is no image, after the
\* directory line was printed: nothing is saved.
C14_Witness ==
    /\ pc = "raised"
    /\ Len(prs) = 8
    /\ WellFormed(call.config)
    /\ stdout = <<[line |-> "directory", slides |-> <<>>]>>
    /\ output = <<>>
    /\ saves = 0

----------------------------------------------------------------------------
(* Claims about the screenshots of two slides, under SpecResolve           *)

ResolveDone == ret.fn = "find_screenshot for two slides"

\* C15 as stated: no file of the directory is resolved as the screenshot of two
\* different slides of SCREENSHOT_SLIDES.
C15_Original ==
    ResolveDone => ~(ret.for_m # None /\ ret.for_m = ret.for_n)

\* The name of a file without its extension.
Stem(name) ==
    IF \E i \in 1..Len(name) : name[i] = "."
    THEN SubSeq(name, 1, (CHOOSE i \in 1..Len(name) :
                             name[i] = "." /\ \A j \in (i + 1)..Len(name) : name[j] # ".") - 1)
    ELSE name

\* C15 amended: a file is resolved as the screenshot of two different slides m
\* and n only when its name, before the extension, contains both numbers; a
\* path find_screenshot returns for a slide always contains that slide's number.
C15_SharedOnlyIfNamesBoth ==
    ResolveDone =>
        /\ ret.for_m # None => Contains(Stem(ret.for_m.name), Str(ret.m))
        /\ ret.for_n # None => Contains(Stem(ret.for_n.name), Str(ret.n))
        /\ (ret.for_m # None /\ ret.for_m = ret.for_n) =>
              /\ Contains(Stem(ret.for_m.name), Str(ret.m))
              /\ Contains(Stem(ret.for_m.name), Str(ret.n))

\* 45678.png is resolved for slide 4 and for slide 8, beside 8.png.
C15_Witness ==
    /\ ResolveDone
    /\ ret.m = 4 /\ ret.n = 8
    /\ fs.entries = {<<"4", "5", "6", "7", "8">> \o png, <<"8">> \o png}
    /\ ret.for_m = PathOf(ShotsDir, <<"4", "5", "6", "7", "8">> \o png)
    /\ ret.for_n = ret.for_m

====
